---- MODULE Spec2Model ----
(***************************************************************************)
(* A model of src/log.py, the Streamlit dashboard over the Cassandra table *)
(* humanitarian_deliveries.                                                *)
(*                                                                         *)
(* The script is executed from its first line to its last on every user    *)
(* interaction (a "run").  Two values outlive a run: the entry of          *)
(* st.cache_resource for get_session and the entry of st.cache_data for    *)
(* load_data; the widget values of the session outlive a run as well.      *)
(* Everything else is recomputed by each run.                              *)
(*                                                                         *)
(* A delivery record keeps the columns the script computes with: branch,   *)
(* arrival_date, capacity_utilisation, driver_name, region, status and     *)
(* week_range, in the order of the query's projection.  Text values are    *)
(* strings, a missing text value (None) is NULL, a missing number (NaN) is *)
(* NaN and a missing date (NaT) is NaT.  A date is the day of January 2024.*)
(***************************************************************************)
EXTENDS Integers, Sequences, FiniteSets, TLC

VARIABLES
    store,            \* the rows of humanitarian_deliveries in the store
    faults,           \* failures the store may still answer with
    written,          \* the table has changed in the store since the start
    cache_resource,   \* st.cache_resource of get_session: <<>> or <<handle>>
    cache_data,       \* st.cache_data of load_data: <<>> or <<table>>
    connections,      \* connections created so far (cluster.connect succeeded)
    connAttempts,     \* cluster.connect calls so far
    queryAttempts,    \* session.execute calls so far
    failed,           \* a connection attempt or the query has failed before
    loaded0,          \* <<>> or <<the table the first successful load returned>>
    w_region,         \* the session's widget value of "Region" (<<>>: untouched)
    w_status,         \* the session's widget value of "Delivery Status"
    w_week,           \* the session's widget value of "Week Range"
    pc,               \* the position of the current run in the script
    error,            \* the exception that ended the run ("" when none)
    rendered,         \* the elements this run has rendered, in order
    runConnects,      \* cluster.connect calls of this run
    runQueries,       \* session.execute calls of this run
    session,          \* <<>> or <<the handle get_session returned in this run>>
    df,               \* the table load_data returned in this run
    regions,          \* options of the Region selectbox
    statuses,         \* options of the Delivery Status multiselect
    weeks,            \* options of the Week Range selectbox
    selected_region,  \* <<>> (None) or <<region>>
    status,           \* the set of selected statuses
    selected_week,    \* <<>> (None) or <<week>>
    filtered,         \* the filtered table
    metrics,          \* the four KPI values
    trips_df,         \* trips per branch
    time_df,          \* deliveries per arrival date
    low_capacity,     \* the exception table
    csv               \* the text handed to st.download_button

persistent == <<store, faults, written, cache_resource, cache_data, connections, connAttempts,
                queryAttempts, failed, loaded0, w_region, w_status, w_week>>
control == <<pc, error, rendered, runConnects, runQueries, session>>
inputs == <<df, regions, statuses, weeks, selected_region, status, selected_week>>
outputs == <<filtered, metrics, trips_df, time_df, low_capacity, csv>>
vars == <<persistent, control, inputs, outputs>>

----------------------------------------------------------------------------
(* Bounds of the model. *)
MaxRows == 3
MaxFaults == 2

(* Missing values. *)
NULL == "NULL"
NaN == -1
NaT == 0

(* A stored arrival date that is no date: pd.to_datetime raises on it. *)
BadDate == 99

(* The threshold of the exception table and the status it compares with. *)
Threshold == 50
Delivered == "Delivered"

(* The projection of the query, in its order. *)
Columns == <<"branch", "arrival_date", "capacity_utilisation", "driver_name",
             "region", "status", "week_range">>
TextColumns == {"branch", "driver_name", "region", "status", "week_range"}

(* The text values of the model in lexicographic order, as sorted() and a  *)
(* sorting groupby order them.                                             *)
Lex == <<"", "A", "Ann", "B", "Bo, A", "Delivered", "J\"R", "N", "Pending",
         "S", "W1", "W2">>

LexIndex(v) == CHOOSE i \in 1..Len(Lex) : Lex[i] = v

(* The place of value v of column c in the ascending order of the column. *)
Rank(c, v) == IF c \in TextColumns THEN LexIndex(v) ELSE v

(* The value a column holds where the store gave none. *)
Missing(c) ==
    IF c \in TextColumns THEN NULL ELSE IF c = "arrival_date" THEN NaT ELSE NaN

----------------------------------------------------------------------------
(* pandas, as far as the script uses it. *)

(* Series.unique(): the distinct values in order of appearance. *)
RECURSIVE UniqueFrom(_, _)
UniqueFrom(s, seen) ==
    IF s = <<>> THEN <<>>
    ELSE IF Head(s) \in seen THEN UniqueFrom(Tail(s), seen)
    ELSE <<Head(s)>> \o UniqueFrom(Tail(s), seen \cup {Head(s)})
Unique(s) == UniqueFrom(s, {})

(* df[c] *)
Series(tbl, c) == [i \in 1..Len(tbl) |-> tbl[i][c]]

(* Series.dropna() *)
DropNa(s, c) == SelectSeq(s, LAMBDA v : v # Missing(c))

Range(s) == {s[i] : i \in 1..Len(s)}

(* sorted(): ascending, by repeatedly taking the least value left. *)
RECURSIVE Sorted(_, _)
Sorted(S, c) ==
    IF S = {} THEN <<>>
    ELSE LET m == CHOOSE x \in S : \A y \in S \ {x} : Rank(c, x) < Rank(c, y)
         IN <<m>> \o Sorted(S \ {m}, c)

(* df[c] == v: a missing cell equals nothing, and None (<<>>) equals no cell. *)
EqMask(tbl, c, v) ==
    [i \in 1..Len(tbl) |-> v # <<>> /\ tbl[i][c] # Missing(c) /\ tbl[i][c] = v[1]]

(* df[c].isin(values) *)
IsinMask(tbl, c, values) == [i \in 1..Len(tbl) |-> tbl[i][c] \in values]

(* mask & mask *)
AndMask(a, b) == [i \in 1..Len(a) |-> a[i] /\ b[i]]

(* mask | mask *)
OrMask(a, b) == [i \in 1..Len(a) |-> a[i] \/ b[i]]

(* df[mask]: the rows whose mask is true, in their order. *)
RECURSIVE BoolIndexFrom(_, _, _)
BoolIndexFrom(tbl, mask, i) ==
    IF i > Len(tbl) THEN <<>>
    ELSE (IF mask[i] THEN <<tbl[i]>> ELSE <<>>) \o BoolIndexFrom(tbl, mask, i + 1)
BoolIndex(tbl, mask) == BoolIndexFrom(tbl, mask, 1)

(* The number of rows of tbl whose column c holds k. *)
CountKey(tbl, c, k) == Cardinality({i \in 1..Len(tbl) : tbl[i][c] = k})

(* groupby(c, sort=False): the keys in order of appearance. *)
GroupKeys_unsorted(tbl, c) == Unique(DropNa(Series(tbl, c), c))

(* df.groupby(c).size().reset_index(name=n): one row per distinct key that *)
(* is not missing (dropna=True), keys ascending (sort=True).               *)
GroupKeys(tbl, c) == Sorted(Range(DropNa(Series(tbl, c), c)), c)
GroupBySize(tbl, c) ==
    LET keys == GroupKeys(tbl, c)
    IN [i \in 1..Len(keys) |-> [key |-> keys[i], size |-> CountKey(tbl, c, keys[i])]]

RECURSIVE SumSeq(_)
SumSeq(s) == IF s = <<>> THEN 0 ELSE Head(s) + SumSeq(Tail(s))

(* Series.mean() formatted with :.1f and a percent sign: the mean of the   *)
(* values present, in tenths, rounded half to even; "nan%" when there is   *)
(* none (the mean of no values is NaN, and formatting NaN raises nothing). *)
MeanText(tbl, c) ==
    LET present == DropNa(Series(tbl, c), c)
        n == Len(present)
        q == (SumSeq(present) * 10) \div n
        r == (SumSeq(present) * 10) % n
    IN IF n = 0 THEN [text |-> "nan%", tenths |-> NaN]
       ELSE [text |-> "number%",
             tenths |-> IF 2 * r > n \/ (2 * r = n /\ q % 2 = 1) THEN q + 1 ELSE q]

(* df[c] < t: a missing number is below nothing. *)
LtMask(tbl, c, t) == [i \in 1..Len(tbl) |-> tbl[i][c] # Missing(c) /\ tbl[i][c] < t]

(* df[c] != v: a missing cell differs from every value. *)
NeMask(tbl, c, v) == [i \in 1..Len(tbl) |-> tbl[i][c] # v]

----------------------------------------------------------------------------
(* DataFrame.to_csv(index=False).  The text is a sequence of characters.   *)
(* A column name of the header is written as one symbol.                   *)

(* The characters of a text value. *)
Chars(v) ==
    CASE v = "" -> <<>>
      [] v = "A" -> <<"A">>
      [] v = "Ann" -> <<"A", "n", "n">>
      [] v = "B" -> <<"B">>
      [] v = "Bo, A" -> <<"B", "o", ",", " ", "A">>
      [] v = "Delivered" -> <<"D", "e", "l", "i", "v", "e", "r", "e", "d">>
      [] v = "J\"R" -> <<"J", "\"", "R">>
      [] v = "N" -> <<"N">>
      [] v = "Pending" -> <<"P", "e", "n", "d", "i", "n", "g">>
      [] v = "S" -> <<"S">>
      [] v = "W1" -> <<"W", "1">>
      [] v = "W2" -> <<"W", "2">>

DigitChars == <<"0", "1", "2", "3", "4", "5", "6", "7", "8", "9">>

(* str(n) of a number that is not negative. *)
RECURSIVE IntChars(_)
IntChars(n) ==
    IF n < 10 THEN <<DigitChars[n + 1]>>
    ELSE IntChars(n \div 10) \o <<DigitChars[(n % 10) + 1]>>

(* A date, all times being midnight, is written as YYYY-MM-DD. *)
DateChars(d) ==
    <<"2", "0", "2", "4", "-", "0", "1", "-">>
        \o <<DigitChars[(d \div 10) + 1], DigitChars[(d % 10) + 1]>>

(* csv.QUOTE_MINIMAL: a field holding the delimiter, the quote character   *)
(* or a line break is quoted, its quote characters doubled.                *)
SpecialChars == {",", "\"", "\n", "\r"}
RECURSIVE DoubleQuotes(_)
DoubleQuotes(cs) ==
    IF cs = <<>> THEN <<>>
    ELSE (IF Head(cs) = "\"" THEN <<"\"", "\"">> ELSE <<Head(cs)>>)
             \o DoubleQuotes(Tail(cs))
(* A writer that never quotes a field. *)
QuoteMinimal_never(cs) == cs

QuoteMinimal(cs) ==
    IF Range(cs) \cap SpecialChars # {}
    THEN <<"\"">> \o DoubleQuotes(cs) \o <<"\"">>
    ELSE cs

(* One cell: a missing value is written as na_rep, the empty string. *)
FormatCell(c, v) ==
    IF v = Missing(c) THEN <<>>
    ELSE IF c \in TextColumns THEN QuoteMinimal(Chars(v))
    ELSE IF c = "arrival_date" THEN DateChars(v)
    ELSE IntChars(v)

RECURSIVE JoinLine(_, _)
JoinLine(cells, i) ==
    IF i > Len(cells) THEN <<"\n">>
    ELSE (IF i > 1 THEN <<",">> ELSE <<>>) \o cells[i] \o JoinLine(cells, i + 1)

RECURSIVE CsvRows(_, _)
CsvRows(tbl, i) ==
    IF i > Len(tbl) THEN <<>>
    ELSE JoinLine([k \in 1..Len(Columns) |-> FormatCell(Columns[k], tbl[i][Columns[k]])], 1)
             \o CsvRows(tbl, i + 1)

ToCsv(tbl) ==
    JoinLine([k \in 1..Len(Columns) |-> <<Columns[k]>>], 1) \o CsvRows(tbl, 1)

----------------------------------------------------------------------------
(* The store. *)

Row(b, d, cu, dn, r, s, w) ==
    [branch |-> b, arrival_date |-> d, capacity_utilisation |-> cu,
     driver_name |-> dn, region |-> r, status |-> s, week_range |-> w]

Tables(rows) == UNION {[1..n -> rows] : n \in 0..MaxRows}

(* Rows that differ in every column, one of them with a malformed date. *)
LifecycleRows ==
    {Row("A", 1, 60, "Ann", "N", Delivered, "W1"),
     Row(NULL, 3, NaN, "Bo, A", "S", "Pending", "W2"),
     Row("A", BadDate, 60, "Ann", "N", Delivered, "W1")}

(* Rows that differ in the three filtered columns, missing values included. *)
SelectionRows ==
    {Row("A", 1, 60, "Ann", "N", Delivered, "W1"),
     Row("A", 1, 60, "Ann", "S", Delivered, "W1"),
     Row("A", 1, 60, "Ann", "N", "Pending", "W1"),
     Row("A", 1, 60, "Ann", "N", Delivered, "W2"),
     Row("A", 1, 60, "Ann", NULL, Delivered, "W1"),
     Row("A", 1, 60, "Ann", "N", NULL, "W1"),
     Row("A", 1, 60, "Ann", "N", Delivered, NULL)}

(* Rows on both sides of the threshold and of "Delivered". *)
UtilisationRows ==
    {Row("A", 1, 40, "Ann", "N", Delivered, "W1"),
     Row("A", 1, 50, "Ann", "N", Delivered, "W1"),
     Row("A", 1, 60, "Ann", "N", Delivered, "W1"),
     Row("A", 1, NaN, "Ann", "N", Delivered, "W1"),
     Row("A", 1, 40, "Ann", "N", "Pending", "W1"),
     Row("A", 1, 60, "Ann", "N", NULL, "W1"),
     Row("A", 1, 60, "Ann", "S", "Pending", "W2")}

(* Rows that differ in the grouping keys: branch and arrival date. *)
GroupingRows ==
    {Row("B", 3, 60, "Ann", "N", Delivered, "W1"),
     Row("A", 1, 60, "Ann", "N", Delivered, "W1"),
     Row("A", 3, 60, "Ann", "N", Delivered, "W1"),
     Row("B", 1, 60, "Ann", "N", Delivered, "W1"),
     Row(NULL, 1, 60, "Ann", "N", Delivered, "W1"),
     Row("A", NaT, 60, "Ann", "N", Delivered, "W1"),
     Row("B", 3, 60, "Ann", "S", Delivered, "W2")}

(* Rows whose text needs quoting, is empty or is missing. *)
TextRows ==
    {Row("A", 1, 60, "Ann", "N", Delivered, "W1"),
     Row("B", 3, 40, "Bo, A", "N", Delivered, "W1"),
     Row("A", 1, 5, "J\"R", "N", Delivered, "W1"),
     Row("A", 1, 60, NULL, "N", Delivered, "W1"),
     Row(NULL, NaT, NaN, "Ann", "N", Delivered, "W1"),
     Row("A", 1, 60, "", "S", NULL, "W2")}

----------------------------------------------------------------------------
(* The script. *)

(* Where a run starts: nothing computed, nothing rendered. *)
StartRun ==
    /\ pc' = "title"
    /\ error' = ""
    /\ rendered' = <<>>
    /\ runConnects' = 0
    /\ runQueries' = 0
    /\ session' = <<>>
    /\ df' = <<>>
    /\ regions' = <<>>
    /\ statuses' = <<>>
    /\ weeks' = <<>>
    /\ selected_region' = <<>>
    /\ status' = {}
    /\ selected_week' = <<>>
    /\ filtered' = <<>>
    /\ metrics' = <<>>
    /\ trips_df' = <<>>
    /\ time_df' = <<>>
    /\ low_capacity' = <<>>
    /\ csv' = <<>>

InitWith(rows, f) ==
    /\ store \in Tables(rows)
    /\ faults = f
    /\ written = FALSE
    /\ cache_resource = <<>>
    /\ cache_data = <<>>
    /\ connections = 0
    /\ connAttempts = 0
    /\ queryAttempts = 0
    /\ failed = FALSE
    /\ loaded0 = <<>>
    /\ w_region = <<>>
    /\ w_status = <<>>
    /\ w_week = <<>>
    /\ pc = "title"
    /\ error = ""
    /\ rendered = <<>>
    /\ runConnects = 0
    /\ runQueries = 0
    /\ session = <<>>
    /\ df = <<>>
    /\ regions = <<>>
    /\ statuses = <<>>
    /\ weeks = <<>>
    /\ selected_region = <<>>
    /\ status = {}
    /\ selected_week = <<>>
    /\ filtered = <<>>
    /\ metrics = <<>>
    /\ trips_df = <<>>
    /\ time_df = <<>>
    /\ low_capacity = <<>>
    /\ csv = <<>>

Init == InitWith(LifecycleRows, MaxFaults)

(* An uncaught exception ends the run where it is raised. *)
Abort(e) == pc' = "aborted" /\ error' = e

(* The sidebar header moved above the load. *)
Title_sidebarFirst ==
    /\ pc = "title"
    /\ rendered' = rendered \o <<"title", "sidebar.header">>
    /\ pc' = "load"
    /\ UNCHANGED <<persistent, error, runConnects, runQueries, session, inputs, outputs>>

(* st.title(...) *)
Title ==
    /\ pc = "title"
    /\ rendered' = Append(rendered, "title")
    /\ pc' = "load"
    /\ UNCHANGED <<persistent, error, runConnects, runQueries, session, inputs, outputs>>

(* get_session without st.cache_resource: every call connects. *)
GetSession_uncached(ok) ==
    /\ connAttempts' = connAttempts + 1
    /\ runConnects' = runConnects + 1
    /\ IF ok
       THEN /\ connections' = connections + 1
            /\ cache_resource' = <<connections + 1>>
            /\ session' = <<connections + 1>>
       ELSE /\ session' = <<>>
            /\ UNCHANGED <<cache_resource, connections>>

(* get_session that tries a second time when the first connect fails. *)
GetSession_retry(ok) ==
    IF cache_resource # <<>>
    THEN /\ session' = cache_resource
         /\ UNCHANGED <<cache_resource, connections, connAttempts, runConnects>>
    ELSE IF ok
    THEN /\ connAttempts' = connAttempts + 1
         /\ runConnects' = runConnects + 1
         /\ connections' = connections + 1
         /\ cache_resource' = <<connections + 1>>
         /\ session' = <<connections + 1>>
    ELSE /\ connAttempts' = connAttempts + 2
         /\ runConnects' = runConnects + 2
         /\ session' = <<>>
         /\ UNCHANGED <<cache_resource, connections>>

(* get_session() under st.cache_resource: the cached handle when there is  *)
(* one; else Cluster(...).connect(...), whose handle is cached when it     *)
(* succeeds (ok) and whose exception is not.  session' = <<>> stands for   *)
(* the exception.                                                          *)
GetSession(ok) ==
    IF cache_resource # <<>>
    THEN /\ session' = cache_resource
         /\ UNCHANGED <<cache_resource, connections, connAttempts, runConnects>>
    ELSE /\ connAttempts' = connAttempts + 1
         /\ runConnects' = runConnects + 1
         /\ IF ok
            THEN /\ connections' = connections + 1
                 /\ cache_resource' = <<connections + 1>>
                 /\ session' = <<connections + 1>>
            ELSE /\ session' = <<>>
                 /\ UNCHANGED <<cache_resource, connections>>

(* pd.to_datetime on the arrival dates: raises on a value that is no date. *)
DatesParse(rows) == \A i \in 1..Len(rows) : rows[i].arrival_date # BadDate

(* load_data without st.cache_data: every call queries the store. *)
LoadData_uncached ==
    /\ pc = "load"
    /\ \E connOk, queryOk \in BOOLEAN :
            /\ queryAttempts <= MaxFaults
            /\ (~connOk \/ ~queryOk) => faults > 0
            /\ GetSession(connOk)
            /\ IF session' = <<>>
               THEN /\ Abort("connect")
                    /\ failed' = TRUE
                    /\ faults' = faults - 1
                    /\ UNCHANGED <<cache_data, queryAttempts, runQueries, loaded0, df>>
               ELSE /\ queryAttempts' = queryAttempts + 1
                    /\ runQueries' = runQueries + 1
                    /\ IF ~queryOk
                       THEN /\ Abort("query")
                            /\ failed' = TRUE
                            /\ faults' = faults - 1
                            /\ UNCHANGED <<cache_data, loaded0, df>>
                       ELSE IF ~DatesParse(store)
                       THEN /\ Abort("to_datetime")
                            /\ UNCHANGED <<cache_data, loaded0, df, failed, faults>>
                       ELSE /\ df' = store
                            /\ cache_data' = <<store>>
                            /\ loaded0' = IF loaded0 = <<>> THEN <<store>> ELSE loaded0
                            /\ pc' = "sidebar"
                            /\ UNCHANGED <<error, failed, faults>>
            /\ UNCHANGED <<store, written, w_region, w_status, w_week, rendered>>
    /\ UNCHANGED <<regions, statuses, weeks, selected_region, status, selected_week,
                   outputs>>

(* df = load_data() under st.cache_data: the cached table when there is    *)
(* one; else get_session(), session.execute(query), pd.DataFrame(rows) and *)
(* the date conversion.  Only a returned table is cached.                  *)
LoadData ==
    /\ pc = "load"
    /\ IF cache_data # <<>>
       THEN /\ df' = cache_data[1]
            /\ pc' = "sidebar"
            /\ UNCHANGED <<persistent, error, rendered, runConnects, runQueries, session>>
       ELSE \E connOk, queryOk \in BOOLEAN :
            /\ queryAttempts <= MaxFaults
            /\ (~connOk \/ ~queryOk) => faults > 0
            /\ GetSession(connOk)
            /\ IF session' = <<>>
               THEN /\ Abort("connect")
                    /\ failed' = TRUE
                    /\ faults' = faults - 1
                    /\ UNCHANGED <<cache_data, queryAttempts, runQueries, loaded0, df>>
               ELSE /\ queryAttempts' = queryAttempts + 1
                    /\ runQueries' = runQueries + 1
                    /\ IF ~queryOk
                       THEN /\ Abort("query")
                            /\ failed' = TRUE
                            /\ faults' = faults - 1
                            /\ UNCHANGED <<cache_data, loaded0, df>>
                       ELSE IF ~DatesParse(store)
                       THEN /\ Abort("to_datetime")
                            /\ UNCHANGED <<cache_data, loaded0, df, failed, faults>>
                       ELSE /\ df' = store
                            /\ cache_data' = <<store>>
                            /\ loaded0' = IF loaded0 = <<>> THEN <<store>> ELSE loaded0
                            /\ pc' = "sidebar"
                            /\ UNCHANGED <<error, failed, faults>>
            /\ UNCHANGED <<store, written, w_region, w_status, w_week, rendered>>
    /\ UNCHANGED <<regions, statuses, weeks, selected_region, status, selected_week,
                   outputs>>

(* st.selectbox(label, options): the session's value, the first option    *)
(* while the user has chosen none, None (<<>>) when there is no option.    *)
Selectbox(options, w) ==
    IF options = <<>> THEN <<>> ELSE IF w = <<>> THEN <<options[1]>> ELSE w

(* st.multiselect(label, options, default=options) *)
Multiselect(options, w) == IF w = <<>> THEN Range(options) ELSE w[1]

(* The sidebar: the three controls and their options.  A table loaded     *)
(* from no rows has no columns, and df["region"] raises KeyError.          *)
Sidebar ==
    /\ pc = "sidebar"
    /\ IF df = <<>>
       THEN /\ Abort("KeyError")
            /\ rendered' = Append(rendered, "sidebar.header")
            /\ UNCHANGED <<regions, statuses, weeks, selected_region, status,
                           selected_week>>
       ELSE /\ regions' = Unique(DropNa(Series(df, "region"), "region"))
            /\ selected_region' = Selectbox(regions', w_region)
            /\ statuses' = Unique(Series(df, "status"))
            /\ status' = Multiselect(statuses', w_status)
            /\ weeks' = Sorted(Range(DropNa(Series(df, "week_range"), "week_range")),
                               "week_range")
            /\ selected_week' = Selectbox(weeks', w_week)
            /\ rendered' = rendered \o <<"sidebar.header", "selectbox.region",
                                         "multiselect.status", "selectbox.week">>
            /\ pc' = "filter"
            /\ UNCHANGED error
    /\ UNCHANGED <<persistent, runConnects, runQueries, session, df, outputs>>

(* The filter with the week predicate left out. *)
FilterRows_noWeek(tbl, r, S, w) ==
    BoolIndex(tbl, AndMask(EqMask(tbl, "region", r), IsinMask(tbl, "status", S)))

(* filtered = df[(region == selected_region) & status.isin(status)         *)
(*               & (week_range == selected_week)]                          *)
FilterRows(tbl, r, S, w) ==
    BoolIndex(tbl, AndMask(AndMask(EqMask(tbl, "region", r),
                                   IsinMask(tbl, "status", S)),
                           EqMask(tbl, "week_range", w)))

Filter ==
    /\ pc = "filter"
    /\ filtered' = FilterRows(df, selected_region, status, selected_week)
    /\ pc' = "metrics"
    /\ UNCHANGED <<persistent, error, rendered, runConnects, runQueries, session,
                   inputs, metrics, trips_df, time_df, low_capacity, csv>>

(* The KPI row.  The beneficiaries and return columns are not in the model; *)
(* the two of the four metrics that are computed from modelled columns are. *)
KeyMetrics(tbl) ==
    [deliveries |-> Len(tbl),
     avg_capacity |-> MeanText(tbl, "capacity_utilisation")]

(* A mean computed by hand, sum over count: ZeroDivisionError on no rows. *)
Metrics_raises ==
    /\ pc = "metrics"
    /\ IF filtered = <<>>
       THEN /\ Abort("ZeroDivisionError")
            /\ rendered' = rendered \o <<"metric.deliveries", "metric.beneficiaries">>
            /\ UNCHANGED metrics
       ELSE /\ metrics' = KeyMetrics(filtered)
            /\ rendered' = rendered \o <<"metric.deliveries", "metric.beneficiaries",
                                         "metric.capacity", "metric.return">>
            /\ pc' = "trips"
            /\ UNCHANGED error
    /\ UNCHANGED <<persistent, runConnects, runQueries, session, inputs,
                   filtered, trips_df, time_df, low_capacity, csv>>

Metrics ==
    /\ pc = "metrics"
    /\ metrics' = KeyMetrics(filtered)
    /\ rendered' = rendered \o <<"metric.deliveries", "metric.beneficiaries",
                                 "metric.capacity", "metric.return">>
    /\ pc' = "trips"
    /\ UNCHANGED <<persistent, error, runConnects, runQueries, session, inputs,
                   filtered, trips_df, time_df, low_capacity, csv>>

(* trips_df = filtered.groupby("branch").size().reset_index(name="trips"), *)
(* its bar chart, and the chart of status per branch after it.             *)
TripsPerBranch ==
    /\ pc = "trips"
    /\ trips_df' = GroupBySize(filtered, "branch")
    /\ rendered' = rendered \o <<"chart.trips", "chart.status_branch">>
    /\ pc' = "time"
    /\ UNCHANGED <<persistent, error, runConnects, runQueries, session, inputs,
                   filtered, metrics, time_df, low_capacity, csv>>

(* if not filtered.empty: time_df = filtered.groupby("arrival_date").size() *)
DeliveriesOverTime ==
    /\ pc = "time"
    /\ IF filtered # <<>>
       THEN /\ time_df' = GroupBySize(filtered, "arrival_date")
            /\ rendered' = Append(rendered, "chart.time")
       ELSE UNCHANGED <<time_df, rendered>>
    /\ pc' = "views"
    /\ UNCHANGED <<persistent, error, runConnects, runQueries, session, inputs,
                   filtered, metrics, trips_df, low_capacity, csv>>

(* The charts by week, capacity per branch, vehicle, load, urgency and     *)
(* cargo: computed from columns outside the model, rendered in this order. *)
OtherViews ==
    /\ pc = "views"
    /\ rendered' = rendered \o <<"chart.week", "chart.capacity_branch",
                                 "chart.vehicle", "chart.load", "chart.urgency",
                                 "chart.cargo_region", "chart.cargo_branch",
                                 "chart.subcargo">>
    /\ pc' = "exceptions"
    /\ UNCHANGED <<persistent, error, runConnects, runQueries, session, inputs,
                   outputs>>

(* The exception table with an exclusive or. *)
LowCapacityRows_exclusive(tbl) ==
    LET a == LtMask(tbl, "capacity_utilisation", Threshold)
        b == NeMask(tbl, "status", Delivered)
    IN BoolIndex(tbl, [i \in 1..Len(tbl) |-> a[i] # b[i]])

(* low_capacity = filtered[(capacity_utilisation < 50) | (status != "Delivered")] *)
LowCapacityRows(tbl) ==
    BoolIndex(tbl, OrMask(LtMask(tbl, "capacity_utilisation", Threshold),
                          NeMask(tbl, "status", Delivered)))

LowCapacity ==
    /\ pc = "exceptions"
    /\ low_capacity' = LowCapacityRows(filtered)
    /\ rendered' = Append(rendered, "table.low_capacity")
    /\ pc' = "export"
    /\ UNCHANGED <<persistent, error, runConnects, runQueries, session, inputs,
                   filtered, metrics, trips_df, time_df, csv>>

(* st.dataframe(filtered) and st.download_button(..., filtered.to_csv(index=False), ...) *)
ExportText(tbl) == ToCsv(tbl)

Download ==
    /\ pc = "export"
    /\ csv' = ExportText(filtered)
    /\ rendered' = rendered \o <<"table.filtered", "download_button">>
    /\ pc' = "done"
    /\ UNCHANGED <<persistent, error, runConnects, runQueries, session, inputs,
                   filtered, metrics, trips_df, time_df, low_capacity>>

----------------------------------------------------------------------------
(* The user.  Changing a control stores its value in the session and runs  *)
(* the script again from its first line; so does asking for a rerun, which *)
(* is all a user can do after a run that ended in an exception.            *)

SelectRegion ==
    /\ pc = "done"
    /\ \E r \in Range(regions) :
           /\ <<r>> # selected_region
           /\ w_region' = <<r>>
    /\ StartRun
    /\ UNCHANGED <<store, faults, written, cache_resource, cache_data, connections, connAttempts,
                   queryAttempts, failed, loaded0, w_status, w_week>>

SelectStatus ==
    /\ pc = "done"
    /\ \E S \in SUBSET Range(statuses) :
           /\ S # status
           /\ w_status' = <<S>>
    /\ StartRun
    /\ UNCHANGED <<store, faults, written, cache_resource, cache_data, connections, connAttempts,
                   queryAttempts, failed, loaded0, w_region, w_week>>

SelectWeek ==
    /\ pc = "done"
    /\ \E w \in Range(weeks) :
           /\ <<w>> # selected_week
           /\ w_week' = <<w>>
    /\ StartRun
    /\ UNCHANGED <<store, faults, written, cache_resource, cache_data, connections, connAttempts,
                   queryAttempts, failed, loaded0, w_region, w_status>>

Rerun ==
    /\ pc \in {"done", "aborted"}
    /\ StartRun
    /\ UNCHANGED persistent

(* The store is written by the ingestion upstream, not by the script: a   *)
(* row leaves the table while the dashboard is up.                         *)
StoreWrite ==
    /\ ~written
    /\ store # <<>>
    /\ store' = Tail(store)
    /\ written' = TRUE
    /\ UNCHANGED <<faults, cache_resource, cache_data, connections, connAttempts,
                   queryAttempts, failed, loaded0, w_region, w_status, w_week,
                   control, inputs, outputs>>

Run ==
    \/ Title
    \/ LoadData
    \/ Sidebar
    \/ Filter
    \/ Metrics
    \/ TripsPerBranch
    \/ DeliveriesOverTime
    \/ OtherViews
    \/ LowCapacity
    \/ Download
    \/ SelectRegion
    \/ SelectStatus
    \/ SelectWeek
    \/ Rerun

Next == Run \/ StoreWrite

Spec == Init /\ [][Next]_vars

(* The same program over stores chosen for one stage each, the store       *)
(* answering every call.                                                   *)
InitSelection == InitWith(SelectionRows, 0)
SpecSelection == InitSelection /\ [][Run]_vars

InitUtilisation == InitWith(UtilisationRows, 0)
SpecUtilisation == InitUtilisation /\ [][Run]_vars

InitGrouping == InitWith(GroupingRows, 0)
SpecGrouping == InitGrouping /\ [][Run]_vars

InitText == InitWith(TextRows, 0)
SpecText == InitText /\ [][Run]_vars

----------------------------------------------------------------------------
(* The connection and the loaded table. *)

(* C7: once load_data has returned a table, no later run executes the      *)
(* query again, and every later load_data call returns a table equal to    *)
(* the first one, whatever the store holds by then.                        *)
C7_LoadedOnce ==
    [][loaded0 # <<>> =>
          /\ queryAttempts' = queryAttempts
          /\ (pc = "load" /\ pc' # "load") => (pc' = "sidebar" /\ df' = loaded0[1])]_vars

(* A rerun has loaded from the cache after the store has changed. *)
C7_Witness ==
    /\ loaded0 # <<>>
    /\ written
    /\ store # loaded0[1]
    /\ pc = "done"
    /\ w_status # <<>>
    /\ df = loaded0[1]
    /\ queryAttempts = 1

(* C8: at most one connection is ever created, and once there is one every *)
(* get_session call returns that handle and connects no more.              *)
C8_OneConnection ==
    [][/\ connections' <= 1
       /\ cache_resource # <<>> =>
              /\ connAttempts' = connAttempts
              /\ connections' = connections
              /\ cache_resource' = cache_resource
              /\ (pc = "load" /\ session' # <<>>) => session' = cache_resource]_vars

(* get_session has been called again after it connected: the query failed  *)
(* in an earlier run and this run has loaded through the cached handle.    *)
C8_Witness ==
    /\ connections = 1
    /\ connAttempts = 1
    /\ queryAttempts = 2
    /\ failed
    /\ pc = "sidebar"
    /\ session = cache_resource

(* C9, as claimed: a run that the connection failure ends has rendered     *)
(* nothing.                                                                *)
C9_NothingRendered == error = "connect" => rendered = <<>>

(* C9, amended: a run that the connection failure ends has rendered the    *)
(* title and nothing else: no sidebar control, metric, chart, table or     *)
(* download button.                                                        *)
C9_OnlyTitleRendered ==
    error = "connect" => (pc = "aborted" /\ rendered = <<"title">>)

C9_Witness == pc = "aborted" /\ error = "connect" /\ runConnects = 1 /\ df = <<>>

(* C10, as claimed: once a connection attempt or the query has failed,     *)
(* nothing attempts the connection or the query again.                     *)
C10_NeverAgain ==
    [][failed => (connAttempts' = connAttempts /\ queryAttempts' = queryAttempts)]_vars

(* C10, amended: within one run nothing is retried: a run attempts the     *)
(* connection at most once and the query at most once, a failed connection *)
(* is followed by no query, and the failure ends the run.                  *)
C10_NoRetryWithinRun ==
    /\ runConnects <= 1
    /\ runQueries <= 1
    /\ error = "connect" => (pc = "aborted" /\ runQueries = 0)
    /\ error = "query" => (pc = "aborted" /\ cache_data = <<>>)

(* A rerun after a failed connection has failed to connect again. *)
C10_Witness ==
    /\ failed
    /\ pc = "aborted"
    /\ error = "connect"
    /\ connAttempts = 2
    /\ runConnects = 1

----------------------------------------------------------------------------
(* The stages of a run. *)

Steps == <<"title", "load", "sidebar", "filter", "metrics", "trips", "time",
           "views", "exceptions", "export", "done">>
StepOf(p) == CHOOSE i \in 1..Len(Steps) : Steps[i] = p

(* The run has executed step p. *)
Past(p) == pc # "aborted" /\ StepOf(pc) > StepOf(p)

(* How many times row x occurs in tbl. *)
Count(tbl, x) == Cardinality({i \in 1..Len(tbl) : tbl[i] = x})

(* Row x has the selected region, a selected status and the selected week. *)
Selected(x) ==
    /\ x.region = selected_region[1]
    /\ x.status \in status
    /\ x.week_range = selected_week[1]

(* C1: with a region and a week selected, the filtered table holds only    *)
(* rows of that region, of a selected status and of that week, and holds   *)
(* each such row of the loaded table as often as the loaded table does; no *)
(* status selected, it is empty.                                           *)
C1_FilterExact ==
    (Past("filter") /\ selected_region # <<>> /\ selected_week # <<>>) =>
        /\ \A i \in 1..Len(filtered) : Selected(filtered[i])
        /\ \A x \in Range(df) :
               Count(filtered, x) = IF Selected(x) THEN Count(df, x) ELSE 0
        /\ status = {} => filtered = <<>>

(* The user has narrowed the statuses, and the filter has kept a row,      *)
(* dropped a row of another region and dropped a row of another status.    *)
C1_Witness ==
    /\ pc = "done"
    /\ w_status # <<>>
    /\ filtered # <<>>
    /\ \E x \in Range(df) : x.region # selected_region[1]
    /\ \E x \in Range(df) : x.status \notin status

(* Row x is below the threshold or not delivered. *)
IsException(x) ==
    \/ (x.capacity_utilisation # NaN /\ x.capacity_utilisation < 50)
    \/ x.status # "Delivered"

(* C2: the exception table holds only filtered rows whose utilisation is   *)
(* below 50 or whose status is not "Delivered", and holds each such row as *)
(* often as the filtered table does.                                       *)
C2_ExceptionsExact ==
    Past("exceptions") =>
        /\ \A i \in 1..Len(low_capacity) : IsException(low_capacity[i])
        /\ \A x \in Range(filtered) :
               Count(low_capacity, x) = IF IsException(x) THEN Count(filtered, x) ELSE 0

(* A row with both reasons is in the exception table, a delivered row at   *)
(* the threshold is not.                                                   *)
C2_Witness ==
    /\ pc = "done"
    /\ \E i \in 1..Len(low_capacity) :
           /\ low_capacity[i].capacity_utilisation = 40
           /\ low_capacity[i].status = "Pending"
    /\ \E x \in Range(filtered) :
           /\ x.capacity_utilisation = 50
           /\ x.status = "Delivered"
           /\ Count(low_capacity, x) = 0

(* The sum of the counts of a grouped view. *)
RECURSIVE SumSizes(_)
SumSizes(g) == IF g = <<>> THEN 0 ELSE Head(g).size + SumSizes(Tail(g))

(* C4: the counts of the trips-per-branch view add up to the Deliveries    *)
(* KPI, the number of filtered rows.                                       *)
C4_TripsSumToDeliveries ==
    Past("trips") => SumSizes(trips_df) = metrics.deliveries

C6_TimeSeries ==
    (Past("time") /\ filtered # <<>>) =>
        /\ {time_df[i].key : i \in 1..Len(time_df)}
               = {filtered[i].arrival_date : i \in 1..Len(filtered)} \ {NaT}
        /\ \A i \in 1..Len(time_df) :
               time_df[i].size
                   = Cardinality({k \in 1..Len(filtered) :
                                      filtered[k].arrival_date = time_df[i].key})
        /\ \A i, j \in 1..Len(time_df) : i < j => time_df[i].key < time_df[j].key

(* Rows of 3, 1 and 1 January, in this order, give (1 January, 2) and      *)
(* (3 January, 1).                                                         *)
C6_Witness ==
    /\ pc = "done"
    /\ Len(filtered) = 3
    /\ filtered[1].arrival_date = 3
    /\ time_df = <<[key |-> 1, size |-> 2], [key |-> 3, size |-> 1]>>

----------------------------------------------------------------------------
(* Reading the exported text back: a reader of comma-separated text in     *)
(* which a quote opens a quoted field, two quotes inside it stand for one, *)
(* a comma ends a field and a line break ends a record.                    *)

NoCell == [chars |-> <<>>, quoted |-> FALSE]

(* The reader before the first character. *)
ReadStart == [mode |-> "plain", cell |-> NoCell, line |-> <<>>, lines |-> <<>>]

(* The reader after one more character.  In mode "closing" it has seen a   *)
(* quote inside a quoted field: a second quote is a quote of the field,    *)
(* any other character comes after the field's closing quote.              *)
ReadChar(st, ch) ==
    IF st.mode = "quoted"
    THEN IF ch = "\"" THEN [st EXCEPT !.mode = "closing"]
         ELSE [st EXCEPT !.cell.chars = Append(@, ch)]
    ELSE IF st.mode = "closing" /\ ch = "\""
    THEN [st EXCEPT !.mode = "quoted", !.cell.chars = Append(@, ch)]
    ELSE IF ch = "\"" /\ st.cell = NoCell
    THEN [st EXCEPT !.mode = "quoted", !.cell.quoted = TRUE]
    ELSE IF ch = ","
    THEN [st EXCEPT !.mode = "plain", !.cell = NoCell, !.line = Append(@, st.cell)]
    ELSE IF ch = "\n"
    THEN [mode |-> "plain", cell |-> NoCell, line |-> <<>>,
          lines |-> Append(st.lines, Append(st.line, st.cell))]
    ELSE [st EXCEPT !.mode = "plain", !.cell.chars = Append(@, ch)]

(* The reader after the characters lo..hi of the text, halving the range  *)
(* (the left half is read before the right half is entered).               *)
RECURSIVE ReadRange(_, _, _, _)
ReadRange(text, lo, hi, st) ==
    IF lo > hi THEN st
    ELSE IF lo = hi THEN ReadChar(st, text[lo])
    ELSE LET mid == (lo + hi) \div 2
             left == ReadRange(text, lo, mid, st)
         IN IF left.mode = "" THEN left ELSE ReadRange(text, mid + 1, hi, left)

ReadLines(text) == ReadRange(text, 1, Len(text), ReadStart).lines

(* The text value of the characters, "?" when they spell none. *)
TextOf(cs) ==
    IF \E v \in Range(Lex) : Chars(v) = cs
    THEN CHOOSE v \in Range(Lex) : Chars(v) = cs
    ELSE "?"

IsDigit(ch) == \E d \in 1..10 : DigitChars[d] = ch
DigitOf(ch) == (CHOOSE d \in 1..10 : DigitChars[d] = ch) - 1

RECURSIVE NumberFrom(_, _)
NumberFrom(cs, acc) ==
    IF cs = <<>> THEN acc ELSE NumberFrom(Tail(cs), 10 * acc + DigitOf(Head(cs)))
NumberOf(cs) == IF \A i \in 1..Len(cs) : IsDigit(cs[i]) THEN NumberFrom(cs, 0) ELSE NaN

(* The day of a date written YYYY-MM-DD, however the reader keeps dates. *)
DayOf(cs) ==
    IF Len(cs) = 10 /\ IsDigit(cs[9]) /\ IsDigit(cs[10])
    THEN 10 * DigitOf(cs[9]) + DigitOf(cs[10])
    ELSE NaT

(* The value of a cell of column c.  A field that is empty and not quoted  *)
(* is a missing value; in a text column it is read as emptyText, which is  *)
(* NULL for a reader that takes it for missing and "" for one that takes   *)
(* it for the empty string.                                                *)
ValueOf(c, cell, emptyText) ==
    IF cell = NoCell THEN (IF c \in TextColumns THEN emptyText ELSE Missing(c))
    ELSE IF c \in TextColumns THEN TextOf(cell.chars)
    ELSE IF c = "arrival_date" THEN DayOf(cell.chars)
    ELSE NumberOf(cell.chars)

(* A header cell is the one symbol of a column's name. *)
HeaderName(cell) == IF Len(cell.chars) = 1 THEN cell.chars[1] ELSE "?"

NoRow == Row("?", NaT, NaN, "?", "?", "?", "?")

(* The table read from the text: the header's names in their order, and    *)
(* one row per later line, its values under the header's names.            *)
ParseCsv(text, emptyText) ==
    LET lines == ReadLines(text)
        names == IF lines = <<>> THEN <<>>
                 ELSE [k \in 1..Len(lines[1]) |-> HeaderName(lines[1][k])]
    IN [columns |-> names,
        rows |-> [n \in 1..(Len(lines) - 1) |->
                     IF names = Columns /\ Len(lines[n + 1]) = Len(Columns)
                     THEN [c \in Range(Columns) |->
                              ValueOf(c, lines[n + 1][CHOOSE k \in 1..Len(Columns) :
                                                          Columns[k] = c],
                                      emptyText)]
                     ELSE NoRow]]

(* "" read as missing, as the reader that takes an empty field for missing *)
(* reads it.                                                               *)
Blank(tbl) ==
    [i \in 1..Len(tbl) |->
        [c \in Range(Columns) |->
            IF c \in TextColumns /\ tbl[i][c] = "" THEN NULL ELSE tbl[i][c]]]

(* C3, as claimed: the text read back is the filtered table: the same      *)
(* columns in the same order, as many rows, the same values; whichever of  *)
(* the two readings of an empty field the reader takes.                    *)
C3_RoundTrip ==
    pc = "done" =>
        \E e \in {NULL, ""} :
            LET read == ParseCsv(csv, e)
            IN /\ read.columns = Columns
               /\ Len(read.rows) = Len(filtered)
               /\ read.rows = filtered

(* C3, amended: the text read back is the filtered table, the same columns *)
(* in the same order, as many rows, the same values, except that an empty  *)
(* text value and a missing text value are not told apart.                 *)
C3_RoundTripUpToEmpty ==
    pc = "done" =>
        \A e \in {NULL, ""} :
            LET read == ParseCsv(csv, e)
            IN /\ read.columns = Columns
               /\ Len(read.rows) = Len(filtered)
               /\ Blank(read.rows) = Blank(filtered)

(* The export of a filtered table that is a proper part of the loaded one, *)
(* with a name that needs quoting and a name that is missing.              *)
C3_Witness ==
    /\ pc = "done"
    /\ Len(filtered) = 2
    /\ Len(df) = 3
    /\ \E i \in 1..2 : filtered[i].driver_name = "Bo, A"
    /\ \E i \in 1..2 : filtered[i].driver_name = NULL

====
